---- MODULE Spec2Model ----
(***************************************************************************)
(* Bubble-sheet recognition of tiennm99/chambai.                           *)
(*                                                                         *)
(* The repository holds several revisions of components/ImageProcessor:    *)
(*   "main"  src/src/components/ImageProcessor.tsx                         *)
(*   "tsa"   src/test-scoring-app/src/components/ImageProcessor.tsx        *)
(*   "mock"  src/unnamed/part_000 (random mock recognition)                *)
(* hosted by UploadPage, with the question counts coming from              *)
(* ConfigurationPage through localStorage.                                 *)
(*                                                                         *)
(* Numbers.  A fill confidence is a real in [0,1]; it is kept here as an   *)
(* integer number of 1/25500ths, and a mean intensity as an integer number *)
(* of hundredths of a grey level, so that 1 - m/255 is exact:              *)
(*      confidence = ConfScale - mean100.                                  *)
(*                                                                         *)
(* Pixels.  The grey image is abstracted to what isBubbleFilled measures   *)
(* in it: for every bubble of the generated grid, the mean intensity and   *)
(* the standard deviation of its region, or the fact that extracting the   *)
(* region throws.  Bubble coordinates (x, y, width, height, area,          *)
(* circularity) only select that region and are left out of the bubble     *)
(* records.                                                                *)
(***************************************************************************)
EXTENDS Integers, Sequences, FiniteSets, TLC

\* 1.0 as a confidence; 255.00 as a mean intensity.
ConfScale == 25500

Max(a, b) == IF a > b THEN a ELSE b

Min(a, b) == IF a < b THEN a ELSE b

Has(rec, field) == field \in DOMAIN rec

Range(seq) == {seq[k] : k \in 1..Len(seq)}

\* Concatenation of a sequence of sequences.
RECURSIVE Flatten(_)
Flatten(ss) == IF ss = <<>> THEN <<>> ELSE Head(ss) \o Flatten(Tail(ss))

\* Number.prototype.toString for a digit 0..9.
DigitToString(d) == <<"0", "1", "2", "3", "4", "5", "6", "7", "8", "9">>[d + 1]

\* Number.prototype.toString for a natural number.
RECURSIVE toString(_)
toString(n) == IF n < 10 THEN DigitToString(n)
               ELSE toString(n \div 10) \o DigitToString(n % 10)

\* String.prototype.padStart(len, '0').
RECURSIVE padStart(_, _)
padStart(s, len) == IF Len(s) >= len THEN s ELSE padStart("0" \o s, len)

(***************************************************************************)
(* Sheet alignment: reference markers                                      *)
(***************************************************************************)

\* Area window of a reference marker, per revision.
MarkerAreaMin(build) == IF build = "main" THEN 200 ELSE 400

MarkerAreaMax(build) == IF build = "main" THEN 5000 ELSE 3000

\* aspectRatio = width / height compared with lo/10 and hi/10.
AspectWithin(c, lo, hi) == /\ 10 * c.width >= lo * c.height
                           /\ 10 * c.width <= hi * c.height

IsCornerContour(build, c) ==
    /\ c.area > MarkerAreaMin(build)
    /\ c.area < MarkerAreaMax(build)
    /\ IF build = "main" THEN AspectWithin(c, 5, 20) ELSE AspectWithin(c, 7, 13)

IsEdgeContour(build, c) ==
    /\ c.area > MarkerAreaMin(build)
    /\ c.area < MarkerAreaMax(build)
    /\ ~IsCornerContour(build, c)
    /\ AspectWithin(c, 3, 30)

\* The markers found among the contours of the thresholded image.  Only the
\* number of corner markers decides which grid is generated; the positions
\* move the grid over the image, which the pixel abstraction absorbs.
detectReferenceMarkers(build, contours) ==
    [corners |-> SelectSeq(contours, LAMBDA c : IsCornerContour(build, c)),
     edges   |-> SelectSeq(contours, LAMBDA c : IsEdgeContour(build, c))]

(***************************************************************************)
(* Bubble grid builder                                                     *)
(***************************************************************************)

OptionLetters == <<"A", "B", "C", "D">>

SubOptionLetters == <<"a", "b", "c", "d">>

\* 9 columns (ID positions) x 10 rows (digits), column by column.
generateStudentInfoBubbles ==
    Flatten([col \in 1..9 |->
        [row \in 1..10 |->
            [section |-> "studentId", column |-> col - 1, row |-> row - 1]]])

\* 4 question columns x 10 question rows x 4 options.
generateSection1Bubbles ==
    Flatten([qCol \in 1..4 |->
        Flatten([qRow \in 1..10 |->
            [option \in 1..4 |->
                [section |-> "section1",
                 question |-> (qCol - 1) * 10 + (qRow - 1) + 1,
                 option |-> OptionLetters[option]]]])])

\* 8 questions x 4 sub-options x 2 states, the true state first.
generateSection2Bubbles ==
    Flatten([q \in 1..8 |->
        Flatten([sub \in 1..4 |->
            [option \in 1..2 |->
                [section |-> "section2",
                 question |-> q,
                 subOption |-> SubOptionLetters[sub],
                 value |-> (option - 1 = 0)]]])])

\* 6 questions x 10 digits.
generateSection3Bubbles ==
    Flatten([q \in 1..6 |->
        [digit \in 1..10 |->
            [section |-> "section3", question |-> q, digit |-> digit - 1]]])

\* Fallback grid of the main revision: fixed fractions of the raw image.
generateDefaultBubblePositions ==
    Flatten([row \in 1..10 |->
        [col \in 1..10 |->
            [section |-> "studentId", column |-> col - 1, row |-> row - 1]]])
    \o
    Flatten([qCol \in 1..4 |->
        Flatten([qRow \in 1..10 |->
            [option \in 1..4 |->
                [section |-> "section1",
                 question |-> (qCol - 1) * 10 + (qRow - 1) + 1,
                 option |-> OptionLetters[option]]]])])
    \o
    Flatten([qCol \in 1..8 |->
        [qRow \in 1..4 |->
            [section |-> "section2",
             question |-> (qCol - 1) + 1,
             option |-> SubOptionLetters[qRow]]]])
    \o
    Flatten([qCol \in 1..6 |->
        <<[section |-> "section3", question |-> (qCol - 1) + 1, symbol |-> "-"],
          [section |-> "section3", question |-> (qCol - 1) + 1, symbol |-> ","]>>
        \o
        [digit \in 1..10 |->
            [section |-> "section3", question |-> (qCol - 1) + 1,
             digit |-> digit - 1]]])

\* Number of iterations of  for (let v = 100; v < size - 100; v += 40).
GridSteps(size) == IF size - 100 <= 100 THEN 0 ELSE (size - 200 + 39) \div 40

\* Fallback grid of the test-scoring-app revision: a plain lattice of
\* bubbles that carry no section, cut to 200; "cell" numbers the lattice
\* position and stands for the bubble's coordinates.
generateDefaultBubblePositionsTsa(imageWidth, imageHeight) ==
    [i \in 1..Min(200, GridSteps(imageWidth) * GridSteps(imageHeight)) |->
        [cell |-> i]]

generateBubbleGrid(build, markers, imageWidth, imageHeight) ==
    IF Len(markers.corners) < 4
    THEN IF build = "main"
         THEN generateDefaultBubblePositions
         ELSE generateDefaultBubblePositionsTsa(imageWidth, imageHeight)
    ELSE generateStudentInfoBubbles \o generateSection1Bubbles
         \o generateSection2Bubbles \o generateSection3Bubbles

(***************************************************************************)
(* Fill classifier                                                         *)
(***************************************************************************)

\* What the image holds in a region nobody marked: white paper, no spread.
BlankStats == [mean100 |-> 25500, stdDev |-> 0, throws |-> FALSE, step |-> "none"]

\* gray.marks maps the bubbles whose region is not blank to what is measured
\* there: mean100 (cv.mean, hundredths of a grey level), stdDev
\* (cv.meanStdDev) and throws (gray.roi or a later cv call raises), with
\* the step that raises: "roi" (gray.roi) or "mean" (cv.mean).
regionStats(gray, bubble) ==
    IF bubble \in DOMAIN gray.marks THEN gray.marks[bubble] ELSE BlankStats

\* Decision threshold of the answer extractor: 0.4 in main, 0.6 in the
\* test-scoring-app revision.
Threshold(build) == IF build = "main" THEN 10200 ELSE 15300

\* Confidence returned from the catch block: 0.0 in main, 0.5 in the
\* test-scoring-app revision.
ErrorConfidence(build) == IF build = "main" THEN 0 ELSE 12750

\* Where generateDefaultBubblePositions of main puts the bubble of option
\* number "option" (0..3) of Section-1 question questionNum, in whole pixels:
\* exact for the image sizes of the model, whose widths are multiples of 400
\* and whose heights are multiples of 200.
defaultSection1Geometry(imageWidth, imageHeight, questionNum, option) ==
    LET qCol == (questionNum - 1) \div 10
        qRow == (questionNum - 1) % 10
        section1StartX == (imageWidth * 8) \div 100
        section1Width == (imageWidth * 85) \div 100
        section1StartY == (imageHeight * 35) \div 100
        section1Height == (imageHeight * 25) \div 100
        colX == section1StartX + qCol * (section1Width \div 4)
        rowY == section1StartY + qRow * (section1Height \div 10)
    IN  [x |-> colX + option * 30 + 25, y |-> rowY, width |-> 12, height |-> 12]

\* The cv.Rect that isBubbleFilled of main passes to gray.roi.
paddedRect(bubble) ==
    LET padding == 2
    IN  [x |-> Max(0, bubble.x - padding),
         y |-> Max(0, bubble.y - padding),
         width |-> bubble.width + padding * 2,
         height |-> bubble.height + padding * 2]

\* isBubbleFilled of main without the floor of the high-variance branch:
\* confidence - 0.1 instead of max(0.3, confidence - 0.1).
isBubbleFilledNoFloor(build, bubble, gray) ==
    LET stats == regionStats(gray, bubble)
        fillConfidence == ConfScale - stats.mean100
    IN  IF stats.throws THEN ErrorConfidence(build)
        ELSE IF build = "main" /\ stats.stdDev > 50
             THEN fillConfidence - 2550
             ELSE fillConfidence

\* isBubbleFilled of main with the floor of the high-variance branch at 0.5
\* instead of 0.3.
isBubbleFilledHighFloor(build, bubble, gray) ==
    LET stats == regionStats(gray, bubble)
        fillConfidence == ConfScale - stats.mean100
    IN  IF stats.throws THEN ErrorConfidence(build)
        ELSE IF build = "main" /\ stats.stdDev > 50
             THEN Max(12750, fillConfidence - 2550)
             ELSE fillConfidence

\* main: 1 - mean/255, and when the deviation is above 50,
\* max(0.3, confidence - 0.1).  test-scoring-app: 1 - mean/255.
isBubbleFilled(build, bubble, gray) ==
    LET stats == regionStats(gray, bubble)
        fillConfidence == ConfScale - stats.mean100
    IN  IF stats.throws THEN ErrorConfidence(build)
        ELSE IF build = "main" /\ stats.stdDev > 50
             THEN Max(7650, fillConfidence - 2550)
             ELSE fillConfidence

\* The Mats that a call of isBubbleFilled allocated and has not deleted
\* when it returns.  The deletes are the last statements of the try block;
\* the catch block deletes nothing.  main has allocated roi (gray.roi) and
\* blurred (new cv.Mat) when cv.mean runs, test-scoring-app only roi.
isBubbleFilledLive(build, bubble, gray) ==
    LET stats == regionStats(gray, bubble)
    IN  IF ~stats.throws \/ stats.step = "roi" THEN {}
        ELSE IF build = "main" THEN {"roi", "blurred"}
        ELSE {"roi"}

(***************************************************************************)
(* Answer extractor                                                        *)
(***************************************************************************)

InSection(b, name) == Has(b, "section") /\ b.section = name

\* scanColumn that writes the digit 0 for a column without a row above the
\* threshold, so that every scanned column keeps its position.
RECURSIVE scanColumnPadded(_, _, _)
scanColumnPadded(build, column, gray) ==
    IF column = <<>> THEN "0"
    ELSE LET bubble == Head(column)
         IN  IF isBubbleFilled(build, bubble, gray) > Threshold(build)
                /\ Has(bubble, "row")
             THEN toString(bubble.row)
             ELSE scanColumnPadded(build, Tail(column), gray)

\* for (const bubble of columns[col]) { if (confidence > T && row defined)
\*   { studentId += row; break; } }
RECURSIVE scanColumn(_, _, _)
scanColumn(build, column, gray) ==
    IF column = <<>> THEN ""
    ELSE LET bubble == Head(column)
         IN  IF isBubbleFilled(build, bubble, gray) > Threshold(build)
                /\ Has(bubble, "row")
             THEN toString(bubble.row)
             ELSE scanColumn(build, Tail(column), gray)

detectStudentId(build, bubbles, gray) ==
    LET idBubbles == SelectSeq(bubbles, LAMBDA b : InSection(b, "studentId"))
        placed == SelectSeq(idBubbles, LAMBDA b : Has(b, "column"))
        columns(col) == SelectSeq(placed, LAMBDA b : b.column = col)
        digits[col \in 0..9] ==
            IF col = 9 THEN ""
            ELSE scanColumn(build, columns(col), gray) \o digits[col + 1]
        studentId == digits[0]
    IN  IF Len(idBubbles) = 0 THEN "UNKNOWN"
        ELSE IF studentId = "" THEN "UNKNOWN" ELSE studentId

\* scanBest without the comparison with bestConfidence: every bubble above
\* the threshold replaces the answer, so the last one scanned wins.
RECURSIVE scanLast(_, _, _, _, _)
scanLast(build, question, gray, best, section) ==
    IF question = <<>> THEN best.answer
    ELSE LET bubble == Head(question)
             confidence == isBubbleFilled(build, bubble, gray)
             taken ==
                 /\ confidence > Threshold(build)
                 /\ (section = "section1" => Has(bubble, "option"))
             answer ==
                 IF section = "section1" THEN bubble.option
                 ELSE IF Has(bubble, "digit") THEN toString(bubble.digit)
                 ELSE ""
         IN  scanLast(build, Tail(question), gray,
                      IF taken
                      THEN [confidence |-> confidence, answer |-> answer]
                      ELSE best,
                      section)

\* The running maximum of sections 1 and 3: best = [confidence, answer].
RECURSIVE scanBest(_, _, _, _, _)
scanBest(build, question, gray, best, section) ==
    IF question = <<>> THEN best.answer
    ELSE LET bubble == Head(question)
             confidence == isBubbleFilled(build, bubble, gray)
             taken ==
                 /\ confidence > best.confidence
                 /\ confidence > Threshold(build)
                 /\ (section = "section1" => Has(bubble, "option"))
             answer ==
                 IF section = "section1" THEN bubble.option
                 ELSE IF Has(bubble, "digit") THEN toString(bubble.digit)
                 ELSE ""
         IN  scanBest(build, Tail(question), gray,
                      IF taken
                      THEN [confidence |-> confidence, answer |-> answer]
                      ELSE best,
                      section)

detectSection1Answers(build, bubbles, gray) ==
    LET section1Bubbles == SelectSeq(bubbles, LAMBDA b : InSection(b, "section1"))
        numbered == SelectSeq(section1Bubbles, LAMBDA b : Has(b, "question"))
        questions(q) == SelectSeq(numbered, LAMBDA b : b.question = q)
        answer(question) ==
            IF question # <<>>
            THEN scanBest(build, question, gray,
                          [confidence |-> 0, answer |-> ""], "section1")
            ELSE ""
    IN  IF Len(section1Bubbles) = 0 THEN <<>>
        ELSE [q \in 1..40 |-> answer(questions(q))]

\* for (const bubble of questions[q][subOpt]) { if (confidence > T)
\*   { if (value defined) answer[subOpt] = value; break; } }
RECURSIVE scanSubOption(_, _, _)
scanSubOption(build, candidates, gray) ==
    IF candidates = <<>> THEN FALSE
    ELSE LET bubble == Head(candidates)
         IN  IF isBubbleFilled(build, bubble, gray) > Threshold(build)
             THEN IF Has(bubble, "value") THEN bubble.value ELSE FALSE
             ELSE scanSubOption(build, Tail(candidates), gray)

detectSection2Answers(build, bubbles, gray) ==
    LET section2Bubbles == SelectSeq(bubbles, LAMBDA b : InSection(b, "section2"))
        grouped ==
            SelectSeq(section2Bubbles,
                      LAMBDA b : Has(b, "question") /\ Has(b, "subOption"))
        questions(q, subOpt) ==
            SelectSeq(grouped,
                      LAMBDA b : b.question = q /\ b.subOption = subOpt)
    IN  IF Len(section2Bubbles) = 0 THEN <<>>
        ELSE [q \in 1..8 |->
                 [subOpt \in {"a", "b", "c", "d"} |->
                     scanSubOption(build, questions(q, subOpt), gray)]]

detectSection3Answers(build, bubbles, gray) ==
    LET section3Bubbles == SelectSeq(bubbles, LAMBDA b : InSection(b, "section3"))
        numbered == SelectSeq(section3Bubbles, LAMBDA b : Has(b, "question"))
        questions(q) == SelectSeq(numbered, LAMBDA b : b.question = q)
        answer(question) ==
            IF question # <<>>
            THEN scanBest(build, question, gray,
                          [confidence |-> 0, answer |-> ""], "section3")
            ELSE ""
    IN  IF Len(section3Bubbles) = 0 THEN <<>>
        ELSE [q \in 1..6 |-> answer(questions(q))]

\* The bubbles a loop with break passes to isBubbleFilled: those of the
\* group up to and including the first one it stops at.
RECURSIVE scannedUntilBreak(_, _, _, _)
scannedUntilBreak(build, group, gray, needsRow) ==
    IF group = <<>> THEN {}
    ELSE LET bubble == Head(group)
             stops == /\ isBubbleFilled(build, bubble, gray) > Threshold(build)
                      /\ (needsRow => Has(bubble, "row"))
         IN  {bubble} \cup
             (IF stops THEN {}
              ELSE scannedUntilBreak(build, Tail(group), gray, needsRow))

\* The bubbles that the four detectors pass to isBubbleFilled.
measuredBubbles(build, bubbles, gray) ==
    LET inSection(name) == SelectSeq(bubbles, LAMBDA b : InSection(b, name))
        placed == SelectSeq(inSection("studentId"), LAMBDA b : Has(b, "column"))
        columns(col) == SelectSeq(placed, LAMBDA b : b.column = col)
        numbered(name) == SelectSeq(inSection(name), LAMBDA b : Has(b, "question"))
        grouped ==
            SelectSeq(inSection("section2"),
                      LAMBDA b : Has(b, "question") /\ Has(b, "subOption"))
        candidates(q, subOpt) ==
            SelectSeq(grouped,
                      LAMBDA b : b.question = q /\ b.subOption = subOpt)
        all(seq, last) == {seq[k] : k \in {j \in 1..Len(seq) : seq[j].question \in 1..last}}
    IN  UNION {scannedUntilBreak(build, columns(col), gray, TRUE) : col \in 0..8}
        \cup all(numbered("section1"), 40)
        \cup UNION {scannedUntilBreak(build, candidates(q, subOpt), gray, FALSE) :
                       q \in 1..8, subOpt \in {"a", "b", "c", "d"}}
        \cup all(numbered("section3"), 6)

(***************************************************************************)
(* Pipeline orchestrator, one function per revision                        *)
(***************************************************************************)

DefaultConfig == [phanI |-> 40, phanII |-> 8, phanIII |-> 6]

\* Each section of a test configuration is { questionCount, answers }; the
\* record keeps the questionCount of each section and leaves the answer key
\* out.
\* localStorage is a function from the keys that are set to their values.
\* The stored test configuration is the JSON text of the question counts,
\* which JSON.parse gives back unchanged (they are finite integers).
getTestConfig(storage) ==
    IF Has(storage, "testConfig") THEN storage.testConfig ELSE DefaultConfig

generateDefaultAnswers ==
    [studentId |-> "123456789",
     phanI |-> <<"A", "B", "C", "D", "A", "B", "C", "D", "A", "B",
                 "C", "D", "A", "B", "C", "D", "A", "B", "C", "D",
                 "A", "B", "C", "D", "A", "B", "C", "D", "A", "B",
                 "C", "D", "A", "B", "C", "D", "A", "B", "C", "D">>,
     phanII |-> <<[a |-> TRUE, b |-> FALSE, c |-> TRUE, d |-> FALSE],
                  [a |-> FALSE, b |-> TRUE, c |-> FALSE, d |-> TRUE],
                  [a |-> TRUE, b |-> TRUE, c |-> FALSE, d |-> FALSE],
                  [a |-> FALSE, b |-> FALSE, c |-> TRUE, d |-> TRUE],
                  [a |-> TRUE, b |-> FALSE, c |-> FALSE, d |-> TRUE],
                  [a |-> FALSE, b |-> TRUE, c |-> TRUE, d |-> FALSE],
                  [a |-> TRUE, b |-> TRUE, c |-> TRUE, d |-> FALSE],
                  [a |-> FALSE, b |-> FALSE, c |-> FALSE, d |-> TRUE]>>,
     phanIII |-> <<"7", "3", "9", "1", "5", "2">>,
     confidence |-> 24225]

\* Math.random() is drawn in quarters: random = r/4 with r in 0..3, and the
\* draws of one processWithOpenCV call return the same value.
generateRandomStudentId(r) == padStart(toString(r * (1000000000 \div 4)), 9)

generateRandomAnswers(count, options, r) ==
    [i \in 1..count |-> options[((r * Len(options)) \div 4) + 1]]

generateRandomPhanII(count, r) ==
    [i \in 1..count |-> [k \in {"a", "b", "c", "d"} |-> 2 * r > 4]]

\* (Math.random() * 100).toFixed(1)
generateRandomNumbers(count, r) ==
    [i \in 1..count |->
        toString((r * 100) \div 4) \o "." \o toString(((r * 1000) \div 4) % 10)]

\* processWithOpenCV of src/unnamed/part_000.
processWithOpenCVMock(r) ==
    [studentId |-> generateRandomStudentId(r),
     phanI |-> generateRandomAnswers(40, OptionLetters, r),
     phanII |-> generateRandomPhanII(8, r),
     phanIII |-> generateRandomNumbers(6, r),
     confidence |-> 21675]

\* The recognition proper, shared by main and test-scoring-app.
recognise(build, imageData) ==
    LET markers == detectReferenceMarkers(build, imageData.contours)
        bubbles == generateBubbleGrid(build, markers,
                                      imageData.width, imageData.height)
    IN  [studentId |-> detectStudentId(build, bubbles, imageData),
         phanI |-> detectSection1Answers(build, bubbles, imageData),
         phanII |-> detectSection2Answers(build, bubbles, imageData),
         phanIII |-> detectSection3Answers(build, bubbles, imageData),
         confidence |-> 21675]

\* The Mats, as <<bubble, name>>, that one processWithOpenCV call allocated
\* and has not deleted when it returns.  src, gray, thresh, contours and
\* hierarchy are deleted before the return; what is left is what the
\* isBubbleFilled calls left.  Only a marked region can make a call throw.
liveMats(build, env, imageData) ==
    LET markers == detectReferenceMarkers(build, imageData.contours)
        bubbles == generateBubbleGrid(build, markers,
                                      imageData.width, imageData.height)
        left(b) == isBubbleFilledLive(build, b, imageData)
        leaky == {b \in DOMAIN imageData.marks : left(b) # {}}
    IN  IF build = "mock" \/ (build = "tsa" /\ env = "development") THEN {}
        ELSE IF leaky = {} THEN {}
        ELSE UNION {{<<b, m>> : m \in left(b)} :
                       b \in leaky \cap measuredBubbles(build, bubbles, imageData)}

\* processWithOpenCV.  main reads the test configuration for the debug
\* drawing only; test-scoring-app returns the fixed answers in development.
processWithOpenCV(build, env, imageData, r) ==
    IF build = "mock" THEN processWithOpenCVMock(r)
    ELSE IF build = "tsa" /\ env = "development" THEN generateDefaultAnswers
    ELSE recognise(build, imageData)

(***************************************************************************)
(* opencvUtils (src/unnamed/part_003)                                      *)
(***************************************************************************)

\* Math.min(...values) and Math.max(...values) of a non-empty array.
MathMin(values) ==
    CHOOSE v \in Range(values) : \A w \in Range(values) : v <= w

MathMax(values) ==
    CHOOSE v \in Range(values) : \A w \in Range(values) : v >= w

\* Array.prototype.indexOf of a value the array holds, as a 1-based index.
indexOf(values, v) ==
    CHOOSE k \in 1..Len(values) :
        /\ values[k] = v
        /\ \A j \in 1..(k - 1) : values[j] # v

\* reorder with the differences taken as x - y instead of y - x.
reorderDiffSwapped(points) ==
    LET sums == [i \in 1..Len(points) |-> points[i][1] + points[i][2]]
        diffs == [i \in 1..Len(points) |-> points[i][1] - points[i][2]]
    IN  <<points[indexOf(sums, MathMin(sums))],
          points[indexOf(diffs, MathMin(diffs))],
          points[indexOf(diffs, MathMax(diffs))],
          points[indexOf(sums, MathMax(sums))]>>

\* reorder: points is the sequence of the <<x, y>> rows of the Mat, the
\* result the four rows written to newPoints.
reorder(points) ==
    LET sums == [i \in 1..Len(points) |-> points[i][1] + points[i][2]]
        diffs == [i \in 1..Len(points) |-> points[i][2] - points[i][1]]
        minSumIdx == indexOf(sums, MathMin(sums))
        maxSumIdx == indexOf(sums, MathMax(sums))
        minDiffIdx == indexOf(diffs, MathMin(diffs))
        maxDiffIdx == indexOf(diffs, MathMax(diffs))
    IN  <<points[minSumIdx], points[minDiffIdx],
          points[maxDiffIdx], points[maxSumIdx]>>

(***************************************************************************)
(* ResultsPage (src/Plan.md)                                               *)
(***************************************************************************)

\* The values undefined and null where a string is expected: what an array
\* gives beyond its length, and what JSON.parse gives for a hole of the key.
JsUndefined == "<undefined>"

JsNull == "<null>"

\* array[i] of a string array, i counted from 0.
StringAt(array, i) == IF i < Len(array) THEN array[i + 1] ELSE JsUndefined

\* array[i] of an array of objects; a missing element and a hole are falsy.
ObjectAt(array, i) == IF i < Len(array) THEN array[i + 1] ELSE [null |-> TRUE]

Truthy(object) == object # [null |-> TRUE]

\* for (i = 0; i < questionCount; i++) if (student[i] === answers[i]) score++
RECURSIVE countEqual(_, _, _, _)
countEqual(i, questionCount, studentAnswers, answers) ==
    IF i >= questionCount THEN 0
    ELSE (IF StringAt(studentAnswers, i) = StringAt(answers, i) THEN 1 ELSE 0)
         + countEqual(i + 1, questionCount, studentAnswers, answers)

\* The Phan II loop with only the sub-answer a compared.
RECURSIVE countPhanIIFirstOnly(_, _, _, _)
countPhanIIFirstOnly(i, questionCount, studentAnswers, answers) ==
    IF i >= questionCount THEN 0
    ELSE LET student == ObjectAt(studentAnswers, i)
             correct == ObjectAt(answers, i)
         IN  (IF /\ Truthy(student) /\ Truthy(correct)
                 /\ student.a = correct.a
              THEN 1 ELSE 0)
             + countPhanIIFirstOnly(i + 1, questionCount, studentAnswers, answers)

\* The Phan II loop: both entries present and a, b, c and d all equal.
RECURSIVE countPhanII(_, _, _, _)
countPhanII(i, questionCount, studentAnswers, answers) ==
    IF i >= questionCount THEN 0
    ELSE LET student == ObjectAt(studentAnswers, i)
             correct == ObjectAt(answers, i)
         IN  (IF /\ Truthy(student) /\ Truthy(correct)
                 /\ student.a = correct.a
                 /\ student.b = correct.b
                 /\ student.c = correct.c
                 /\ student.d = correct.d
              THEN 1 ELSE 0)
             + countPhanII(i + 1, questionCount, studentAnswers, answers)

\* calculateScore.  percentage is kept in hundredths:
\* Math.round(percentage * 100) / 100.
calculateScore(studentResult, testConfig) ==
    LET phanIScore == countEqual(0, testConfig.phanI.questionCount,
                                 studentResult.phanI, testConfig.phanI.answers)
        phanIIScore == countPhanII(0, testConfig.phanII.questionCount,
                                   studentResult.phanII, testConfig.phanII.answers)
        phanIIIScore == countEqual(0, testConfig.phanIII.questionCount,
                                   studentResult.phanIII, testConfig.phanIII.answers)
        totalQuestions == testConfig.phanI.questionCount
                          + testConfig.phanII.questionCount
                          + testConfig.phanIII.questionCount
        totalScore == phanIScore + phanIIScore + phanIIIScore
    IN  [phanI |-> phanIScore,
         phanII |-> phanIIScore,
         phanIII |-> phanIIIScore,
         total |-> totalScore,
         percentage |-> IF totalQuestions > 0
                        THEN (2 * totalScore * 10000 + totalQuestions)
                             \div (2 * totalQuestions)
                        ELSE 0]

(***************************************************************************)
(* Inputs and bounds                                                       *)
(***************************************************************************)

\* Largest questionCount of a section of the configurations that are scored.
MaxQuestions == 3

\* Sequences over a set of values, of length 0 to 2.
ShortArrays(values) ==
    {<<>>} \cup {<<v>> : v \in values} \cup {<<v, w>> : v \in values, w \in values}

\* Two Phan II answers that differ in d only.
SubAnswersTFTF == [a |-> TRUE, b |-> FALSE, c |-> TRUE, d |-> FALSE]

SubAnswersTFTT == [a |-> TRUE, b |-> FALSE, c |-> TRUE, d |-> TRUE]

\* Stored results: arrays that may be shorter than the questionCount.
ScoredResults ==
    [phanI : ShortArrays({"A", ""}),
     phanII : {<<>>, <<SubAnswersTFTF>>, <<SubAnswersTFTF, SubAnswersTFTT>>},
     phanIII : {<<>>, <<"12">>, <<"">>}]

\* Stored configurations: any questionCount up to the bound, a key that may
\* be shorter than the questionCount and may have holes.
ScoredConfigs ==
    [phanI : [questionCount : 0..MaxQuestions,
              answers : ShortArrays({"A", "B"}) \cup {<<JsNull, "A">>}],
     phanII : [questionCount : 0..MaxQuestions,
               answers : {<<>>, <<SubAnswersTFTF>>, <<SubAnswersTFTT>>,
                          <<[null |-> TRUE], SubAnswersTFTT>>}],
     phanIII : [questionCount : 0..MaxQuestions,
                answers : {<<>>, <<"12">>}]]

\* Largest coordinate of the corner points given to reorder.
MaxCoordinate == 2

\* The contours of four points that reorder is given.
CornerPoints ==
    LET coordinates == 0..MaxCoordinate
        pts == coordinates \X coordinates
    IN  {<<p1, p2, p3, p4>> : p1 \in pts, p2 \in pts, p3 \in pts, p4 \in pts}

\* Question-count edits made on the configuration page in one run.
MaxEdits == 1

\* Files the user selects for one batch.
MaxImages == 1

\* Batches started with the "process" button.
MaxBatches == 3

\* Bound on the drag events that change dragActive.
MaxDrags == 1

\* Values typed into a question-count field (min 0 on the input element).
QuestionCountInputs == {0, 5}

\* Math.random() in quarters (0.25 or 0.75); only the mock revision draws.
RandomDraws(revision) == IF revision = "mock" THEN {1, 3} ELSE {0}

Builds == {"main", "tsa", "mock"}

NodeEnvs == {"development", "production"}

\* Contours of the thresholded image: square markers of 30x30, small
\* squares of 20x15 that only main accepts, an elongated edge marker.
SquareMarker == [area |-> 900, width |-> 30, height |-> 30]

SmallMarker == [area |-> 300, width |-> 20, height |-> 15]

EdgeMarker == [area |-> 1000, width |-> 50, height |-> 20]

FourSquares == <<SquareMarker, SquareMarker, SquareMarker, SquareMarker>>

ContourLists ==
    {<<>>,
     <<SquareMarker, SquareMarker, SquareMarker, EdgeMarker>>,
     FourSquares,
     <<SmallMarker, SmallMarker, SmallMarker, SmallMarker, EdgeMarker>>}

\* A pencil mark of confidence 0.55, one of 0.72, a region whose extraction
\* throws, and a grey smear (raw confidence 0.45, deviation 60).
MidMark == [mean100 |-> 11475, stdDev |-> 0, throws |-> FALSE, step |-> "none"]

HighMark == [mean100 |-> 7140, stdDev |-> 0, throws |-> FALSE, step |-> "none"]

BadRegion == [mean100 |-> 25500, stdDev |-> 0, throws |-> TRUE, step |-> "roi"]

\* A region that gray.roi extracts and cv.mean fails on.
BadMean == [mean100 |-> 25500, stdDev |-> 0, throws |-> TRUE, step |-> "mean"]

Smear == [mean100 |-> 14025, stdDev |-> 60, throws |-> FALSE, step |-> "none"]

MarkStats == {MidMark, HighMark, BadRegion, BadMean, Smear}

\* What the two regions of a doubly marked image hold.
PairStats == {MidMark, HighMark, BadRegion}

\* The regions of the sheet that the images of the model may have marked.
MarkSites ==
    {[section |-> "studentId", column |-> c, row |-> r] :
        c \in {0, 8, 9}, r \in {0, 7}}
    \cup {[section |-> "section1", question |-> 40, option |-> o] :
        o \in {"A", "C"}}
    \cup {[section |-> "section2", question |-> 8, subOption |-> "a", value |-> v] :
        v \in BOOLEAN}
    \cup {[section |-> "section2", question |-> 8, option |-> "a"]}
    \cup {[section |-> "section3", question |-> 6, digit |-> d] : d \in {0, 9}}
    \cup {[section |-> "section3", question |-> 6, symbol |-> "-"]}

NoMarks == [b \in {} |-> BlankStats]

OneMark(b, st) == [x \in {b} |-> st]

TwoMarks(b1, st1, b2, st2) == [x \in {b1, b2} |-> IF x = b1 THEN st1 ELSE st2]

\* A File object of the browser and the pixels it decodes to.  "object" is
\* the identity of the object: every selection creates a new one.
File(contours, width, height, marks) ==
    [name |-> "sheet.png", object |-> 1, contours |-> contours,
     width |-> width, height |-> height, marks |-> marks]

\* Images for the runs that vary the configuration: an unmarked sheet with
\* and without its four corner markers.
BasicImages == {File(cs, 800, 1100, NoMarks) : cs \in {<<>>, FourSquares}}

\* Images for the runs that vary the sheet: every contour list with at most
\* one marked region, and two marked regions of one section with and
\* without the four corner markers.
SheetImages ==
    LET lists == {<<>>, FourSquares}
        pairs == {p \in MarkSites \X MarkSites : p[1].section = p[2].section}
    IN  {File(cs, 800, 1100, NoMarks) : cs \in ContourLists}
        \cup {File(<<>>, 240, 320, NoMarks)}
        \cup {File(cs, 800, 1100, OneMark(b, st)) :
                 cs \in ContourLists, b \in MarkSites, st \in MarkStats}
        \cup {File(cs, 800, 1100, TwoMarks(p[1], st1, p[2], st2)) :
                 cs \in lists, p \in pairs,
                 st1 \in PairStats, st2 \in PairStats}

(***************************************************************************)
(* State                                                                   *)
(***************************************************************************)

VARIABLES
    build,                  \* revision of ImageProcessor in the bundle
    nodeEnv,                \* process.env.NODE_ENV
    currentPage,            \* Home state: "config" or "upload"
    localStorage,           \* keys "testConfig" and "studentResults"
    config,                 \* ConfigurationPage: question counts being edited
    edits,                  \* number of question-count edits so far
    selectedImages,         \* UploadPage state
    processedResults,       \* UploadPage state
    processing,             \* UploadPage state
    currentProcessingImage, \* UploadPage state; Null or a file
    batch,                  \* the running processImages call, or Null
    batches,                \* number of processImages calls that started
    resolvers,              \* indices i with window['processing-i'] set
    lastAlert,              \* text of the last alert()
    windowCv,               \* "absent", "loading", "loaded" or "ready"
    cvLoaded,               \* ImageProcessor state
    ipProcessing,           \* ImageProcessor state "processing"
    effectPending,          \* the processing effect has to run
    pendingLoads,           \* images whose onload has not fired yet
    completions,            \* log of the onProcessingComplete calls
    drags,                  \* UploadPage: changes of dragActive so far
    call                    \* last call of an exported utility: fn, args, result

vars == <<build, nodeEnv, currentPage, localStorage, config, edits, selectedImages,
          processedResults, processing, currentProcessingImage, batch,
          batches, resolvers, lastAlert, windowCv, cvLoaded, ipProcessing,
          effectPending, pendingLoads, completions, drags, call>>

configVars == <<config, edits>>

uploadVars == <<selectedImages, processedResults, processing,
                currentProcessingImage, batch, batches, resolvers>>

processorVars == <<windowCv, cvLoaded, ipProcessing, effectPending,
                   pendingLoads, completions>>

Null == [null |-> TRUE]

NoCall == [fn |-> "none"]

setItem(storage, key, value) ==
    [k \in DOMAIN storage \cup {key} |-> IF k = key THEN value ELSE storage[k]]

getItem(storage, key, default) ==
    IF Has(storage, key) THEN storage[key] ELSE default

InitWith(builds, envs) ==
    /\ build \in builds
    /\ nodeEnv \in envs
    /\ currentPage = "config"
    /\ localStorage = [k \in {} |-> Null]
    /\ config = DefaultConfig
    /\ edits = 0
    /\ selectedImages = <<>>
    /\ processedResults = <<>>
    /\ processing = FALSE
    /\ currentProcessingImage = Null
    /\ batch = Null
    /\ batches = 0
    /\ resolvers = {}
    /\ lastAlert = ""
    /\ windowCv = "absent"
    /\ cvLoaded = FALSE
    /\ ipProcessing = FALSE
    /\ effectPending = FALSE
    /\ pendingLoads = {}
    /\ completions = <<>>
    /\ drags = 0
    /\ call = NoCall

\* Only the test-scoring-app revision reads NODE_ENV for its results.
Init == InitWith({"main", "mock"}, {"production"}) \/ InitWith({"tsa"}, NodeEnvs)

(***************************************************************************)
(* ConfigurationPage                                                       *)
(***************************************************************************)

updateQuestionCount(section, count) ==
    /\ currentPage = "config"
    /\ edits < MaxEdits
    /\ config' = [config EXCEPT ![section] = count]
    /\ edits' = edits + 1
    /\ UNCHANGED <<build, nodeEnv, call, drags, currentPage, localStorage, lastAlert>>
    /\ UNCHANGED uploadVars
    /\ UNCHANGED processorVars

saveConfig ==
    /\ currentPage = "config"
    /\ localStorage' = setItem(localStorage, "testConfig", config)
    /\ lastAlert' = "config saved"
    /\ UNCHANGED <<build, nodeEnv, call, drags, currentPage>>
    /\ UNCHANGED configVars
    /\ UNCHANGED uploadVars
    /\ UNCHANGED processorVars

resetAllData ==
    /\ currentPage = "config"
    /\ localStorage' = [k \in {} |-> Null]
    /\ config' = DefaultConfig
    /\ lastAlert' = "data cleared"
    /\ UNCHANGED <<build, nodeEnv, call, drags, currentPage, edits>>
    /\ UNCHANGED uploadVars
    /\ UNCHANGED processorVars

(***************************************************************************)
(* Home: one page is rendered at a time                                    *)
(***************************************************************************)

\* The promise that processImages awaits is resolved and its continuation
\* is queued as a microtask: it runs before any other event or render.
Resuming == batch # Null /\ batch.resolved

\* Navigation's onPageChange.  The page left is unmounted and loses its
\* state, and with UploadPage its ImageProcessor; ConfigurationPage loads
\* the saved configuration when it mounts.  A processImages call that is
\* waiting and the image loads that were started stay behind: their
\* closures belong to the unmounted page, whose state setters do nothing.
onPageChange(page) ==
    /\ ~Resuming
    /\ page # currentPage
    /\ currentPage' = page
    /\ IF page = "config"
       THEN /\ config' = getTestConfig(localStorage)
            /\ selectedImages' = <<>>
            /\ processedResults' = <<>>
            /\ processing' = FALSE
            /\ currentProcessingImage' = Null
            /\ batch' = IF batch = Null THEN Null
                        ELSE [batch EXCEPT !.unmounted = TRUE]
            /\ cvLoaded' = FALSE
            /\ ipProcessing' = FALSE
            /\ effectPending' = FALSE
            /\ pendingLoads' =
                   {[load EXCEPT !.unmounted = TRUE] : load \in pendingLoads}
       ELSE /\ config' = DefaultConfig
            /\ UNCHANGED <<selectedImages, processedResults, processing,
                           currentProcessingImage, batch, cvLoaded,
                           ipProcessing, effectPending, pendingLoads>>
    /\ UNCHANGED <<build, nodeEnv, call, drags, localStorage, edits, batches,
                   resolvers, lastAlert, windowCv, completions>>

\* A render of UploadPage caused by its own state.  handleProcessingComplete
\* is a new function in every render, so the processImage callback of a
\* mounted ImageProcessor changes and its processing effect runs again.
Rerender ==
    effectPending' = (effectPending \/ currentProcessingImage # Null)

(***************************************************************************)
(* UploadPage                                                              *)
(***************************************************************************)

handleFileSelect(file) ==
    /\ ~Resuming
    /\ currentPage = "upload"
    /\ Len(selectedImages) < MaxImages
    /\ selectedImages' =
           Append(selectedImages,
                  [file EXCEPT !.object = Len(selectedImages) + 1])
    /\ Rerender
    /\ UNCHANGED <<build, nodeEnv, call, drags, currentPage, localStorage, lastAlert, processedResults,
                   processing, currentProcessingImage, batch, batches, resolvers>>
    /\ UNCHANGED configVars
    /\ UNCHANGED <<windowCv, cvLoaded, ipProcessing, pendingLoads, completions>>

\* removeImage: the image at the 0-based index leaves the selection.
removeImage(index) ==
    /\ ~Resuming
    /\ currentPage = "upload"
    /\ index \in 0..(Len(selectedImages) - 1)
    /\ selectedImages' =
           [k \in 1..(Len(selectedImages) - 1) |->
               IF k <= index THEN selectedImages[k] ELSE selectedImages[k + 1]]
    /\ Rerender
    /\ UNCHANGED <<build, nodeEnv, call, drags, currentPage, localStorage, lastAlert, processedResults,
                   processing, currentProcessingImage, batch, batches, resolvers>>
    /\ UNCHANGED configVars
    /\ UNCHANGED <<windowCv, cvLoaded, ipProcessing, pendingLoads, completions>>

\* handleDrag: dragenter and dragover set dragActive, dragleave clears it.
\* Only an event that changes dragActive renders the page again.
handleDrag ==
    /\ ~Resuming
    /\ currentPage = "upload"
    /\ drags < MaxDrags
    /\ drags' = drags + 1
    /\ Rerender
    /\ UNCHANGED <<build, nodeEnv, call, currentPage, localStorage, lastAlert>>
    /\ UNCHANGED configVars
    /\ UNCHANGED uploadVars
    /\ UNCHANGED <<windowCv, cvLoaded, ipProcessing, pendingLoads, completions>>

\* Array.prototype.findIndex with ===, 0-based, -1 when absent.
findIndex(images, image) ==
    IF \E k \in 1..Len(images) : images[k] = image
    THEN (CHOOSE k \in 1..Len(images) :
              /\ images[k] = image
              /\ \A j \in 1..(k - 1) : images[j] # image) - 1
    ELSE -1

\* React mounts ImageProcessor when currentProcessingImage becomes non-null;
\* its first effect sets cvLoaded when window.cv exists and appends the
\* opencv.js script otherwise.
MountImageProcessor ==
    /\ cvLoaded' = (windowCv \in {"loaded", "ready"})
    /\ windowCv' = IF windowCv = "absent" THEN "loading" ELSE windowCv
    /\ ipProcessing' = FALSE
    /\ effectPending' = TRUE

\* processImages with setProcessedResults([]) moved in front of the two
\* checks: the early returns clear the results that are shown.
processImagesClearsFirst ==
    /\ currentPage = "upload"
    /\ ~processing
    /\ batches < MaxBatches
    /\ IF Len(selectedImages) = 0
       THEN /\ lastAlert' = "select an image"
            /\ processedResults' = <<>>
            /\ UNCHANGED <<localStorage, selectedImages, processing,
                           currentProcessingImage, batch, batches, resolvers>>
            /\ UNCHANGED <<windowCv, cvLoaded, ipProcessing, effectPending>>
       ELSE IF ~Has(localStorage, "testConfig")
       THEN /\ lastAlert' = "configure the test first"
            /\ processedResults' = <<>>
            /\ UNCHANGED <<localStorage, selectedImages, processing,
                           currentProcessingImage, batch, batches, resolvers>>
            /\ UNCHANGED <<windowCv, cvLoaded, ipProcessing, effectPending>>
       ELSE /\ processing' = TRUE
            /\ processedResults' = <<>>
            /\ batch' = [i |-> 0, resolved |-> FALSE, unmounted |-> FALSE,
                         selectedImages |-> selectedImages,
                         processedResults |-> processedResults]
            /\ batches' = batches + 1
            /\ currentProcessingImage' = selectedImages[1]
            /\ resolvers' = resolvers \cup {0}
            /\ MountImageProcessor
            /\ UNCHANGED <<localStorage, lastAlert, selectedImages>>
    /\ UNCHANGED <<build, nodeEnv, call, drags, currentPage, pendingLoads, completions>>
    /\ UNCHANGED configVars

\* The click handler up to its first await.  The button is disabled while
\* a batch runs.
processImages ==
    /\ currentPage = "upload"
    /\ ~processing
    /\ batches < MaxBatches
    /\ IF Len(selectedImages) = 0
       THEN /\ lastAlert' = "select an image"
            /\ UNCHANGED <<localStorage>>
            /\ UNCHANGED uploadVars
            /\ UNCHANGED <<windowCv, cvLoaded, ipProcessing, effectPending>>
       ELSE IF ~Has(localStorage, "testConfig")
       THEN /\ lastAlert' = "configure the test first"
            /\ UNCHANGED <<localStorage>>
            /\ UNCHANGED uploadVars
            /\ UNCHANGED <<windowCv, cvLoaded, ipProcessing, effectPending>>
       ELSE /\ processing' = TRUE
            /\ processedResults' = <<>>
            /\ batch' = [i |-> 0, resolved |-> FALSE, unmounted |-> FALSE,
                         selectedImages |-> selectedImages,
                         processedResults |-> processedResults]
            /\ batches' = batches + 1
            /\ currentProcessingImage' = selectedImages[1]
            /\ resolvers' = resolvers \cup {0}
            /\ MountImageProcessor
            /\ UNCHANGED <<localStorage, lastAlert, selectedImages>>
    /\ UNCHANGED <<build, nodeEnv, call, drags, currentPage, pendingLoads, completions>>
    /\ UNCHANGED configVars

\* The rest of processImages, run when the awaited promise is resolved:
\* the next file, or the end of the batch.
processImagesResume ==
    /\ batch # Null
    /\ batch.resolved
    /\ IF batch.i + 1 < Len(batch.selectedImages)
       THEN /\ batch' = [batch EXCEPT !.i = batch.i + 1, !.resolved = FALSE]
            /\ resolvers' = resolvers \cup {batch.i + 1}
            /\ IF batch.unmounted
               THEN UNCHANGED <<currentProcessingImage, effectPending>>
               ELSE /\ currentProcessingImage' = batch.selectedImages[batch.i + 2]
                    /\ effectPending' =
                           (effectPending
                            \/ batch.selectedImages[batch.i + 2]
                                   # currentProcessingImage)
            /\ UNCHANGED <<processing, localStorage, lastAlert, cvLoaded,
                           ipProcessing>>
       ELSE /\ localStorage' =
                   setItem(localStorage, "studentResults",
                           getItem(localStorage, "studentResults", <<>>)
                           \o batch.processedResults)
            /\ lastAlert' = "processing done"
            /\ batch' = Null
            /\ IF batch.unmounted
               THEN UNCHANGED <<processing, currentProcessingImage, cvLoaded,
                                ipProcessing, effectPending>>
               ELSE /\ processing' = FALSE
                    /\ currentProcessingImage' = Null
                    /\ cvLoaded' = FALSE
                    /\ ipProcessing' = FALSE
                    /\ effectPending' = FALSE
            /\ UNCHANGED resolvers
    /\ UNCHANGED <<build, nodeEnv, call, drags, currentPage, selectedImages,
                   processedResults, batches, windowCv, pendingLoads,
                   completions>>
    /\ UNCHANGED configVars

(***************************************************************************)
(* ImageProcessor                                                          *)
(***************************************************************************)

\* script.onload: window.cv exists from now on.
scriptOnload ==
    /\ ~Resuming
    /\ windowCv = "loading"
    /\ windowCv' = "loaded"
    /\ UNCHANGED <<build, nodeEnv, call, drags, currentPage, localStorage, lastAlert,
                   cvLoaded, ipProcessing, effectPending, pendingLoads,
                   completions>>
    /\ UNCHANGED configVars
    /\ UNCHANGED uploadVars

\* window.cv.onRuntimeInitialized: setCvLoaded(true) in the mounted component.
onRuntimeInitialized ==
    /\ ~Resuming
    /\ windowCv = "loaded"
    /\ windowCv' = "ready"
    /\ IF currentProcessingImage # Null
       THEN cvLoaded' = TRUE /\ effectPending' = TRUE
       ELSE UNCHANGED <<cvLoaded, effectPending>>
    /\ UNCHANGED <<build, nodeEnv, call, drags, currentPage, localStorage, lastAlert,
                   ipProcessing, pendingLoads, completions>>
    /\ UNCHANGED configVars
    /\ UNCHANGED uploadVars

\* The processing effect and the processImage it calls, up to img.src.
\* The onload closure keeps the handleProcessingComplete of the render
\* that created it, and with it the state of UploadPage in that render.
processImage ==
    /\ ~Resuming
    /\ effectPending
    /\ currentProcessingImage # Null
    /\ effectPending' = FALSE
    /\ IF cvLoaded /\ windowCv # "absent"
       THEN /\ ipProcessing' = TRUE
            /\ pendingLoads' = pendingLoads \cup
                   {[imageFile |-> currentProcessingImage,
                     selectedImages |-> selectedImages,
                     currentProcessingImage |-> currentProcessingImage,
                     processedResults |-> processedResults,
                     drags |-> drags,
                     unmounted |-> FALSE]}
       ELSE UNCHANGED <<ipProcessing, pendingLoads>>
    /\ UNCHANGED <<build, nodeEnv, call, drags, currentPage, localStorage, lastAlert,
                   windowCv, cvLoaded, completions>>
    /\ UNCHANGED configVars
    /\ UNCHANGED uploadVars

\* img.onload: processWithOpenCV, then onProcessingComplete, which is
\* handleProcessingComplete of UploadPage.  When the call resolves the
\* awaited promise, processImages resumes before the page is rendered;
\* otherwise setProcessedResults renders the page as it is.
imgOnload(load, r) ==
    /\ ~Resuming
    /\ load \in pendingLoads
    /\ pendingLoads' = pendingLoads \ {load}
    /\ LET result == processWithOpenCV(build, nodeEnv, load.imageFile, r)
           newResult ==
               [id |-> "student_" \o toString(Len(load.processedResults) + 1),
                fileName |-> load.currentProcessingImage.name,
                studentId |-> result.studentId,
                phanI |-> result.phanI,
                phanII |-> result.phanII,
                phanIII |-> result.phanIII,
                processed |-> TRUE]
           currentIndex == findIndex(load.selectedImages,
                                     load.currentProcessingImage)
       IN  /\ processedResults' =
                  IF load.unmounted THEN processedResults
                  ELSE Append(processedResults, newResult)
           /\ resolvers' = resolvers \ {currentIndex}
           /\ IF /\ batch # Null
                 /\ currentIndex \in resolvers
                 /\ batch.i = currentIndex
              THEN /\ batch' = [batch EXCEPT !.resolved = TRUE]
                   /\ UNCHANGED effectPending
              ELSE /\ UNCHANGED batch
                   /\ IF load.unmounted THEN UNCHANGED effectPending
                      ELSE Rerender
           /\ completions' =
                  Append(completions,
                         [imageFile |-> load.imageFile,
                          testConfig |-> getTestConfig(localStorage),
                          result |-> result,
                          live |-> liveMats(build, nodeEnv, load.imageFile)])
    /\ ipProcessing' = (ipProcessing /\ load.unmounted)
    /\ UNCHANGED <<build, nodeEnv, call, drags, currentPage, localStorage, lastAlert,
                   selectedImages, processing, currentProcessingImage,
                   batches, windowCv, cvLoaded>>
    /\ UNCHANGED configVars

\* The image does not decode and the browser fires the error event of
\* img.  processImage sets onload only: no handler runs, setProcessing(false)
\* and onProcessingComplete are not called.
imgOnerror(load) ==
    /\ ~Resuming
    /\ load \in pendingLoads
    /\ pendingLoads' = pendingLoads \ {load}
    /\ UNCHANGED <<build, nodeEnv, call, drags, currentPage, localStorage, lastAlert,
                   windowCv, cvLoaded, ipProcessing, effectPending, completions>>
    /\ UNCHANGED configVars
    /\ UNCHANGED uploadVars

(***************************************************************************)
(* Specifications                                                          *)
(***************************************************************************)

\* Every revision, the configuration edited on its page, unmarked sheets.
\* The user configures the test and then moves to the upload page, and
\* removes images from the selection only between batches.
Next ==
    \/ \E section \in {"phanI", "phanII", "phanIII"}, count \in QuestionCountInputs :
           updateQuestionCount(section, count)
    \/ saveConfig
    \/ resetAllData
    \/ onPageChange("upload")
    \/ \E file \in BasicImages : handleFileSelect(file)
    \/ ~processing /\ \E index \in 0..(MaxImages - 1) : removeImage(index)
    \/ processImages
    \/ processImagesResume
    \/ scriptOnload
    \/ onRuntimeInitialized
    \/ processImage
    \/ \E load \in pendingLoads, r \in RandomDraws(build) : imgOnload(load, r)

Spec == Init /\ [][Next]_vars

\* The two detecting revisions in production, the default configuration
\* saved, one marked sheet selected and processed MaxBatches times.
InitSheet ==
    /\ build \in {"main", "tsa"}
    /\ nodeEnv = "production"
    /\ currentPage = "upload"
    /\ localStorage = [testConfig |-> DefaultConfig]
    /\ config = DefaultConfig
    /\ edits = 0
    /\ selectedImages \in {<<file>> : file \in SheetImages}
    /\ processedResults = <<>>
    /\ processing = FALSE
    /\ currentProcessingImage = Null
    /\ batch = Null
    /\ batches = 0
    /\ resolvers = {}
    /\ lastAlert = "config saved"
    /\ windowCv = "absent"
    /\ cvLoaded = FALSE
    /\ ipProcessing = FALSE
    /\ effectPending = FALSE
    /\ pendingLoads = {}
    /\ completions = <<>>
    /\ drags = 0
    /\ call = NoCall

NextSheet ==
    \/ processImages
    \/ processImagesResume
    \/ scriptOnload
    \/ onRuntimeInitialized
    \/ processImage
    \/ \E load \in pendingLoads, r \in RandomDraws(build) : imgOnload(load, r)

SpecSheet == InitSheet /\ [][NextSheet]_vars

\* What cv.mean and cv.meanStdDev can measure on a region of 8-bit pixels:
\* every whole mean 0..255 with a deviation on either side of the cut at 50
\* (a deviation s needs s * s <= mean * (255 - mean)), and the two failures.
RegionInputs ==
    LET measured == {<<m, sd>> \in (0..255) \X {0, 51} : sd * sd <= m * (255 - m)}
    IN  {[mean100 |-> 100 * p[1], stdDev |-> p[2],
          throws |-> FALSE, step |-> "none"] : p \in measured}
        \cup {BadRegion, BadMean}

\* The bubble that the calls of isBubbleFilled measure.
MeasuredBubble == [section |-> "section1", question |-> 40, option |-> "A"]

\* A behaviour measures at most two regions, the two halves of a comparison.
canMeasure ==
    \/ call = NoCall
    \/ call.fn = "isBubbleFilled" /\ call.earlier = Null

\* A detector measures one bubble.  The record keeps the measurement before
\* this one.
callIsBubbleFilled(stats) ==
    /\ canMeasure
    /\ call' = [fn |-> "isBubbleFilled",
                args |-> stats,
                result |-> isBubbleFilled(build, MeasuredBubble,
                              File(<<>>, 800, 1100, OneMark(MeasuredBubble, stats))),
                earlier |-> IF call = NoCall THEN Null
                            ELSE [args |-> call.args, result |-> call.result]]
    /\ UNCHANGED <<build, nodeEnv, drags, currentPage, localStorage, lastAlert>>
    /\ UNCHANGED configVars
    /\ UNCHANGED uploadVars
    /\ UNCHANGED processorVars

\* Sizes of the images whose default grid is measured.
ImageSizes == {400, 800} \X {600, 1200}

\* isBubbleFilled builds the rectangle of one Section-1 bubble of the default
\* grid of an image of the given size.
callPaddedRect(size, questionNum, option) ==
    /\ call = NoCall
    /\ LET bubble == defaultSection1Geometry(size[1], size[2], questionNum, option)
       IN  call' = [fn |-> "paddedRect",
                    args |-> [bubble |-> bubble, imageWidth |-> size[1],
                              imageHeight |-> size[2]],
                    result |-> paddedRect(bubble)]
    /\ UNCHANGED <<build, nodeEnv, drags, currentPage, localStorage, lastAlert>>
    /\ UNCHANGED configVars
    /\ UNCHANGED uploadVars
    /\ UNCHANGED processorVars

\* LocalImageStorage.MAX_IMAGES.
MAX_IMAGES == 10

\* Bound on the saveToStorage calls of a behaviour.
MaxSaves == 12

\* LocalImageStorage.getStoredImages; the entry is only written by
\* saveToStorage, so JSON.parse gives back the list that was stored.
getStoredImages(storage) == getItem(storage, "chambai_debug_images", <<>>)

\* The last n elements of a list.
LastOf(list, n) ==
    IF Len(list) <= n THEN list ELSE SubSeq(list, Len(list) - n + 1, Len(list))

\* saveToStorage that keeps the first MAX_IMAGES images: splice(MAX_IMAGES).
saveToStorageKeepsOldest(storage, dataUrl, now, writeFails) ==
    LET pushed == Append(getStoredImages(storage),
                         [id |-> toString(now), dataUrl |-> dataUrl])
        stored == IF Len(pushed) > MAX_IMAGES
                  THEN SubSeq(pushed, 1, MAX_IMAGES) ELSE pushed
    IN  IF writeFails THEN [storage |-> storage, id |-> ""]
        ELSE [storage |-> setItem(storage, "chambai_debug_images", stored),
              id |-> toString(now)]

\* LocalImageStorage.saveToStorage: the storage after the call and the
\* value returned.  now is Date.now(); writeFails says that
\* localStorage.setItem throws, which leaves the storage as it was.
saveToStorage(storage, dataUrl, now, writeFails) ==
    LET pushed == Append(getStoredImages(storage),
                         [id |-> toString(now), dataUrl |-> dataUrl])
        stored == IF Len(pushed) > MAX_IMAGES
                  THEN LastOf(pushed, MAX_IMAGES) ELSE pushed
    IN  IF writeFails THEN [storage |-> storage, id |-> ""]
        ELSE [storage |-> setItem(storage, "chambai_debug_images", stored),
              id |-> toString(now)]

\* The saveToStorage calls so far, the last one included.
SaveLog == IF call.fn = "saveToStorage" THEN call.log ELSE <<>>

\* A debug image is saved.  The images are numbered in the order of the
\* calls, and the clock advances from one call to the next.
callSaveToStorage(writeFails) ==
    /\ call = NoCall \/ call.fn = "saveToStorage"
    /\ Len(SaveLog) < MaxSaves
    /\ LET dataUrl == "data:image/png;" \o toString(Len(SaveLog) + 1)
           saved == saveToStorage(localStorage, dataUrl, Len(SaveLog) + 1, writeFails)
       IN  /\ localStorage' = saved.storage
           /\ call' = [fn |-> "saveToStorage",
                        args |-> dataUrl,
                        result |-> saved.id,
                        log |-> Append(SaveLog,
                                       [dataUrl |-> dataUrl, result |-> saved.id,
                                        writeFails |-> writeFails])]
    /\ UNCHANGED <<build, nodeEnv, drags, currentPage, lastAlert>>
    /\ UNCHANGED configVars
    /\ UNCHANGED uploadVars
    /\ UNCHANGED processorVars

\* ResultsPage scores one stored result against the stored configuration.
callCalculateScore(studentResult, testConfig) ==
    /\ call = NoCall
    /\ call' = [fn |-> "calculateScore",
                args |-> [studentResult |-> studentResult, config |-> testConfig],
                result |-> calculateScore(studentResult, testConfig)]
    /\ UNCHANGED <<build, nodeEnv, drags, currentPage, localStorage, lastAlert>>
    /\ UNCHANGED configVars
    /\ UNCHANGED uploadVars
    /\ UNCHANGED processorVars

\* A caller applies reorder to the four corner points of a contour.  Each
\* behaviour holds one call: the utilities keep no state between calls.
callReorder(points) ==
    /\ call = NoCall
    /\ call' = [fn |-> "reorder", args |-> points, result |-> reorder(points)]
    /\ UNCHANGED <<build, nodeEnv, drags, currentPage, localStorage, lastAlert>>
    /\ UNCHANGED configVars
    /\ UNCHANGED uploadVars
    /\ UNCHANGED processorVars

\* The exported utilities called on their own, outside the pages.
InitCalls == InitWith({"main"}, {"production"})

NextCalls ==
    \/ call = NoCall /\ \E points \in CornerPoints : callReorder(points)
    \/ canMeasure /\ \E stats \in RegionInputs : callIsBubbleFilled(stats)
    \/ call = NoCall /\ \E studentResult \in ScoredResults, testConfig \in ScoredConfigs :
           callCalculateScore(studentResult, testConfig)
    \/ \E writeFails \in BOOLEAN : callSaveToStorage(writeFails)
    \/ call = NoCall /\ \E size \in ImageSizes, questionNum \in 1..40, option \in 0..3 :
           callPaddedRect(size, questionNum, option)

SpecCalls == InitCalls /\ [][NextCalls]_vars

\* A blank sheet and a sheet with one Section-1 bubble filled, under
\* different file names.
BatchSheets ==
    {[File(<<>>, 800, 1100, NoMarks) EXCEPT !.name = "blank.png"],
     [File(<<>>, 800, 1100, OneMark(MeasuredBubble, HighMark))
         EXCEPT !.name = "marked.png"]}

\* The two detecting revisions in production, the default configuration
\* saved, the two sheets selected in either order and processed as one
\* batch at a time, while the user may drag a file over the drop area.
InitBatch ==
    /\ build \in {"main", "tsa"}
    /\ nodeEnv = "production"
    /\ currentPage = "upload"
    /\ localStorage = [testConfig |-> DefaultConfig]
    /\ config = DefaultConfig
    /\ edits = 0
    /\ \E first \in BatchSheets : \E second \in BatchSheets \ {first} :
           selectedImages = <<[first EXCEPT !.object = 1],
                              [second EXCEPT !.object = 2]>>
    /\ processedResults = <<>>
    /\ processing = FALSE
    /\ currentProcessingImage = Null
    /\ batch = Null
    /\ batches = 0
    /\ resolvers = {}
    /\ lastAlert = "config saved"
    /\ windowCv = "absent"
    /\ cvLoaded = FALSE
    /\ ipProcessing = FALSE
    /\ effectPending = FALSE
    /\ pendingLoads = {}
    /\ completions = <<>>
    /\ drags = 0
    /\ call = NoCall

NextBatch ==
    \/ handleDrag
    \/ processImages
    \/ processImagesResume
    \/ scriptOnload
    \/ onRuntimeInitialized
    \/ processImage
    \/ \E load \in pendingLoads, r \in RandomDraws(build) : imgOnload(load, r)

SpecBatch == InitBatch /\ [][NextBatch]_vars

\* The two detecting revisions in production, the default configuration
\* saved and an unmarked sheet selected on the upload page.
InitNav ==
    /\ build \in {"main", "tsa"}
    /\ nodeEnv = "production"
    /\ currentPage = "upload"
    /\ localStorage = [testConfig |-> DefaultConfig]
    /\ config = DefaultConfig
    /\ edits = 0
    /\ selectedImages \in {<<file>> : file \in BasicImages}
    /\ processedResults = <<>>
    /\ processing = FALSE
    /\ currentProcessingImage = Null
    /\ batch = Null
    /\ batches = 0
    /\ resolvers = {}
    /\ lastAlert = "config saved"
    /\ windowCv = "absent"
    /\ cvLoaded = FALSE
    /\ ipProcessing = FALSE
    /\ effectPending = FALSE
    /\ pendingLoads = {}
    /\ completions = <<>>
    /\ drags = 0
    /\ call = NoCall

\* A user who processes the sheet and also leaves the upload page for the
\* configuration page, comes back and selects a sheet again.
NextNav ==
    \/ onPageChange("config")
    \/ onPageChange("upload")
    \/ \E file \in BasicImages : handleFileSelect(file)
    \/ processImages
    \/ processImagesResume
    \/ scriptOnload
    \/ onRuntimeInitialized
    \/ processImage
    \/ \E load \in pendingLoads, r \in RandomDraws(build) : imgOnload(load, r)

SpecNav == InitNav /\ [][NextNav]_vars

\* The browser ends every image load, with the load event or with the
\* error event.
LoadSettles ==
    \E load \in pendingLoads :
        \/ imgOnerror(load)
        \/ \E r \in RandomDraws(build) : imgOnload(load, r)

\* The sheet of SpecNav, a file that need not decode, and a user who stays
\* on the upload page.
NextLoads ==
    \/ handleDrag
    \/ processImages
    \/ processImagesResume
    \/ scriptOnload
    \/ onRuntimeInitialized
    \/ processImage
    \/ LoadSettles

\* What the browser and React do is done eventually: the script loads and
\* the runtime calls back, effects and promise continuations run, image
\* loads end.  What the user does is left open.
SpecLoads ==
    /\ InitNav
    /\ [][NextLoads]_vars
    /\ WF_vars(scriptOnload)
    /\ WF_vars(onRuntimeInitialized)
    /\ WF_vars(processImage)
    /\ WF_vars(LoadSettles)
    /\ WF_vars(processImagesResume)

(***************************************************************************)
(* Properties                                                              *)
(***************************************************************************)

\* The onProcessingComplete calls made so far.
Completed == {completions[k] : k \in 1..Len(completions)}

\* The threshold T of the specification, 0.4.
T == 10200

\* A valid configuration: every section has at least one question.
ValidConfig(c) == c.phanI > 0 /\ c.phanII > 0 /\ c.phanIII > 0

\* The result has the lengths the configuration asks for.
HasConfiguredShape(c) ==
    /\ Len(c.result.phanI) = c.testConfig.phanI
    /\ Len(c.result.phanII) = c.testConfig.phanII
    /\ \A i \in 1..Len(c.result.phanII) :
           DOMAIN c.result.phanII[i] = {"a", "b", "c", "d"}
    /\ Len(c.result.phanIII) = c.testConfig.phanIII

\* The fill confidence of a bubble on the image of a completed call.
Conf(c, bubble) == isBubbleFilled(build, bubble, c.imageFile)

\* The grid the call generated for its image.
GridOf(c) ==
    generateBubbleGrid(build,
                       detectReferenceMarkers(build, c.imageFile.contours),
                       c.imageFile.width, c.imageFile.height)

FewCorners(c) ==
    Len(detectReferenceMarkers(build, c.imageFile.contours).corners) < 4

\* C1: in the main revision, for every valid configuration and every image,
\* the result has phanI, phanII and phanIII of the configured lengths, every
\* phanII element carrying a, b, c and d.
C1_ShapeInvariant ==
    build = "main" =>
        \A c \in Completed : ValidConfig(c.testConfig) => HasConfiguredShape(c)

\* C1: a call of the main revision under a valid configuration of 5
\* Section-1 questions that returned 40 answers.
C1_ShapeBroken ==
    /\ build = "main"
    /\ \E c \in Completed :
           /\ ValidConfig(c.testConfig)
           /\ c.testConfig.phanI = 5
           /\ Len(c.result.phanI) = 40

\* C2: when fewer than 4 corner markers are detected, the result of the
\* default-grid fallback still has the configured lengths.
C2_FallbackShape ==
    \A c \in Completed : FewCorners(c) => HasConfiguredShape(c)

\* C2: a call of the test-scoring-app revision on an image without corner
\* markers that returned empty answer arrays under the default configuration.
C2_FallbackEmpty ==
    /\ build = "tsa"
    /\ \E c \in Completed :
           /\ FewCorners(c)
           /\ c.testConfig = DefaultConfig
           /\ c.result.phanI = <<>>
           /\ c.result.phanII = <<>>
           /\ c.result.phanIII = <<>>

\* The four option bubbles of a Section-1 question.
Section1Bubble(q, o) == [section |-> "section1", question |-> q, option |-> o]

\* C3: in the main revision every Section-1 answer is the option of a bubble
\* of maximum confidence among the question's four option bubbles when that
\* maximum exceeds T, and the empty string otherwise.
C3_Section1Maximum ==
    build = "main" =>
        \A c \in Completed : \A q \in 1..40 :
            LET answer == c.result.phanI[q]
                options == Range(OptionLetters)
                conf(o) == Conf(c, Section1Bubble(q, o))
            IN  IF \E o \in options : conf(o) > T
                THEN /\ answer \in options
                     /\ \A o \in options : conf(answer) >= conf(o)
                ELSE answer = ""

\* C3: question 40 has option A at 0.55 and option C at 0.72, both above T,
\* and the answer is C, the option scanned later.
C3_HigherScannedLater ==
    /\ build = "main"
    /\ \E c \in Completed :
           /\ Conf(c, Section1Bubble(40, "A")) = ConfScale - MidMark.mean100
           /\ Conf(c, Section1Bubble(40, "C")) = ConfScale - HighMark.mean100
           /\ c.result.phanI[40] = "C"

IdBubble(col, row) == [section |-> "studentId", column |-> col, row |-> row]

\* The ID strings that take, in every column 0..8 with a row above T, the
\* digit of a row of highest confidence, and nothing in the other columns.
HighestRowIds(c) ==
    LET conf(col, row) == Conf(c, IdBubble(col, row))
        digitsOf(col) ==
            IF \E row \in 0..9 : conf(col, row) > T
            THEN {toString(row) : row \in
                     {r \in 0..9 : \A r2 \in 0..9 : conf(col, r) >= conf(col, r2)}}
            ELSE {""}
        ids[col \in 0..9] ==
            IF col = 9 THEN {""}
            ELSE {d \o rest : d \in digitsOf(col), rest \in ids[col + 1]}
    IN  ids[0]

\* C4: in the main revision, when rows of the columns 0..8 have confidence
\* above T, the student ID holds for each such column the digit of the row
\* with the highest confidence.
C4_HighestRowWins ==
    build = "main" =>
        \A c \in Completed :
            (\E col \in 0..8, row \in 0..9 : Conf(c, IdBubble(col, row)) > T)
                => c.result.studentId \in HighestRowIds(c)

\* C4: column 0 has row 0 at 0.55 and row 7 at 0.72 and nothing else is
\* marked; the student ID is "0", the first row scanned.
C4_FirstRowWins ==
    /\ build = "main"
    /\ \E c \in Completed :
           /\ DOMAIN c.imageFile.marks = {IdBubble(0, 0), IdBubble(0, 7)}
           /\ Conf(c, IdBubble(0, 0)) = ConfScale - MidMark.mean100
           /\ Conf(c, IdBubble(0, 7)) = ConfScale - HighMark.mean100
           /\ c.result.studentId = "0"

\* The student-ID bubbles of the generated grid with confidence above T.
FilledIdBubbles(c) ==
    {b \in Range(GridOf(c)) : InSection(b, "studentId") /\ Conf(c, b) > T}

\* C5: in the main revision the student ID is "UNKNOWN" exactly when no
\* student-ID bubble of the generated grid has confidence above T.
C5_UnknownIffNoneFilled ==
    build = "main" =>
        \A c \in Completed :
            (c.result.studentId = "UNKNOWN") <=> (FilledIdBubbles(c) = {})

\* C5: an ID bubble of the default grid, in column 9, is above T and the
\* student ID is "UNKNOWN".
C5_UnknownThoughFilled ==
    /\ build = "main"
    /\ \E c \in Completed :
           /\ \E b \in FilledIdBubbles(c) : b.column = 9
           /\ c.result.studentId = "UNKNOWN"

\* The two candidate bubbles of a Section-2 sub-option on the marker grid.
Section2Bubble(q, sub, v) ==
    [section |-> "section2", question |-> q, subOption |-> sub, value |-> v]

\* C6: in the main revision, on the marker-based grid, every Section-2
\* boolean is the value of the candidate bubble that exceeds T, of the one of
\* higher confidence when both exceed T, and false when neither exceeds T.
C6_Section2HigherWins ==
    build = "main" =>
        \A c \in Completed : ~FewCorners(c) =>
            \A q \in 1..8 : \A sub \in Range(SubOptionLetters) :
                LET answer == c.result.phanII[q][sub]
                    conf(v) == Conf(c, Section2Bubble(q, sub, v))
                IN  IF \E v \in BOOLEAN : conf(v) > T
                    THEN conf(answer) > T /\ conf(answer) >= conf(~answer)
                    ELSE answer = FALSE

\* C6: sub-option a of question 8 has its true-state bubble at 0.55 and its
\* false-state bubble at 0.72, and the answer is true.
C6_FirstCandidateWins ==
    /\ build = "main"
    /\ \E c \in Completed :
           /\ ~FewCorners(c)
           /\ Conf(c, Section2Bubble(8, "a", TRUE)) = ConfScale - MidMark.mean100
           /\ Conf(c, Section2Bubble(8, "a", FALSE)) = ConfScale - HighMark.mean100
           /\ c.result.phanII[8]["a"] = TRUE

\* The bubbles of a Section-3 question in the generated grid.
Section3Bubbles(c, q) ==
    {b \in Range(GridOf(c)) : InSection(b, "section3") /\ b.question = q}

\* C7: in the main revision, with either grid, a Section-3 answer is empty
\* if and only if no bubble of its question has confidence above T, and is
\* otherwise the digit of a bubble of maximum confidence.
C7_Section3Maximum ==
    build = "main" =>
        \A c \in Completed : \A q \in 1..6 :
            LET answer == c.result.phanIII[q]
                bubbles == Section3Bubbles(c, q)
            IN  IF \E b \in bubbles : Conf(c, b) > T
                THEN \E b \in bubbles :
                         /\ \A b2 \in bubbles : Conf(c, b) >= Conf(c, b2)
                         /\ Has(b, "digit")
                         /\ answer = toString(b.digit)
                ELSE answer = ""

\* C7: the "-" bubble of question 6 in the default grid is above T and the
\* answer to question 6 is the empty string.
C7_EmptyThoughFilled ==
    /\ build = "main"
    /\ \E c \in Completed :
           /\ \E b \in Section3Bubbles(c, 6) : Has(b, "symbol") /\ Conf(c, b) > T
           /\ c.result.phanIII[6] = ""

\* Two files hold the same image: the File objects may differ.
SameImage(f, g) == [f EXCEPT !.object = 1] = [g EXCEPT !.object = 1]

\* C8: two calls on the same image under the same configuration return the
\* same studentId, phanI, phanII, phanIII and confidence.
C8_Deterministic ==
    \A c1 \in Completed, c2 \in Completed :
        (SameImage(c1.imageFile, c2.imageFile) /\ c1.testConfig = c2.testConfig)
            => c1.result = c2.result

\* C8: the part_000 revision processed one image twice under one
\* configuration and returned two different student IDs.
C8_RandomResults ==
    /\ build = "mock"
    /\ \E c1 \in Completed, c2 \in Completed :
           /\ SameImage(c1.imageFile, c2.imageFile)
           /\ c1.testConfig = c2.testConfig
           /\ c1.result.studentId # c2.result.studentId

\* The bubbles of the generated grid whose region cannot be extracted.
FailingBubbles(c) ==
    {b \in Range(GridOf(c)) : regionStats(c.imageFile, b).throws}

\* C9: isBubbleFilled returns 0.0 for every bubble of a processed sheet whose
\* extraction fails, and the sheet is processed to its end.
C9_FailureIsZero ==
    \A c \in Completed : \A b \in FailingBubbles(c) : Conf(c, b) = 0

\* C9: the test-scoring-app revision processed a sheet to its end with a
\* bubble whose extraction fails, for which isBubbleFilled returns 0.5.
C9_FailureIsHalf ==
    /\ build = "tsa"
    /\ \E c \in Completed : \E b \in FailingBubbles(c) :
           Conf(c, b) = ConfScale \div 2

\* C10: no image is processed while the saved configuration has a question
\* count of 0 or less: such a configuration is rejected before processing.
C10_InvalidConfigRejected ==
    (processing \/ Completed # {}) =>
        /\ Has(localStorage, "testConfig")
        /\ ValidConfig(localStorage.testConfig)

\* C10: an image was processed to a result under a saved configuration with
\* a question count of 0.
C10_ProcessedInvalidConfig ==
    \E c \in Completed :
        /\ ~ValidConfig(c.testConfig)
        /\ Has(localStorage, "testConfig")
        /\ c.testConfig = localStorage.testConfig
        /\ lastAlert = "processing done"

\* C11: every Mat allocated during a processing call has been deleted when
\* the call returns, also when a step of isBubbleFilled fails.
C11_AllMatsReleased ==
    \A c \in Completed : c.live = {}

\* C11: a call returned while the roi of a bubble whose cv.mean failed was
\* still allocated.
C11_RoiLeftAllocated ==
    \E c \in Completed : \E b \in DOMAIN c.imageFile.marks :
        /\ c.imageFile.marks[b] = BadMean
        /\ <<b, "roi">> \in c.live

\* No bubble of the generated grid has confidence above T.
NothingFilled(c) == \A b \in Range(GridOf(c)) : Conf(c, b) <= T

\* C12: in the main revision, for an image in which no bubble exceeds T and
\* 5 Section-1 questions configured, the Section-1 answers are five empty
\* strings and the confidence of the result is below 0.3.
C12_BlankSheet ==
    build = "main" =>
        \A c \in Completed :
            (c.testConfig.phanI = 5 /\ NothingFilled(c)) =>
                /\ c.result.phanI = <<"", "", "", "", "">>
                /\ c.result.confidence < (30 * ConfScale) \div 100

\* C12: the main revision processed a blank sheet with 5 Section-1 questions
\* configured and returned 40 empty answers with confidence 0.85.
C12_BlankSheetConfident ==
    /\ build = "main"
    /\ \E c \in Completed :
           /\ c.testConfig.phanI = 5
           /\ NothingFilled(c)
           /\ c.result.phanI = [q \in 1..40 |-> ""]
           /\ c.result.confidence = (85 * ConfScale) \div 100

\* The Section-2 shape of the marker-based grid: every question has exactly
\* 8 bubbles, each with subOption and value, one true-state and one
\* false-state bubble for each of a, b, c, d.
HasSection2Shape(grid) ==
    \A q \in 1..8 :
        LET bubbles == SelectSeq(grid, LAMBDA b : /\ InSection(b, "section2")
                                                  /\ Has(b, "question")
                                                  /\ b.question = q)
        IN  /\ Len(bubbles) = 8
            /\ \A k \in 1..Len(bubbles) :
                   Has(bubbles[k], "subOption") /\ Has(bubbles[k], "value")
            /\ \A sub \in Range(SubOptionLetters), v \in BOOLEAN :
                   \E k \in 1..Len(bubbles) :
                       bubbles[k] = Section2Bubble(q, sub, v)

\* C13: in the main revision the default grid, generated when fewer than 4
\* corner markers are found, has the Section-2 shape of the marker-based
\* grid.
C13_DefaultGridSection2 ==
    build = "main" =>
        \A c \in Completed : FewCorners(c) => HasSection2Shape(GridOf(c))

\* C13: a sheet was processed on the default grid, whose Section-2 bubble
\* of question 8, row a carries only "option"; that bubble is above T and
\* every boolean of question 8 is false.
C13_DefaultGridOptionOnly ==
    /\ build = "main"
    /\ \E c \in Completed :
           LET bubble == [section |-> "section2", question |-> 8, option |-> "a"]
           IN  /\ FewCorners(c)
               /\ bubble \in Range(GridOf(c))
               /\ Conf(c, bubble) > T
               /\ c.result.phanII[8] = [sub \in {"a", "b", "c", "d"} |-> FALSE]

\* The marker-based grid has the Section-2 shape wherever it was generated.
MarkerGridSection2 ==
    build = "main" =>
        \A c \in Completed : ~FewCorners(c) => HasSection2Shape(GridOf(c))

\* C14: given 4 points, reorder returns [top-left, top-right, bottom-left,
\* bottom-right]: a point of minimum x+y, one of minimum y-x, one of maximum
\* y-x and one of maximum x+y.
C14_ReorderCorners ==
    call.fn = "reorder" =>
        LET points == Range(call.args)
            sum(p) == p[1] + p[2]
            diff(p) == p[2] - p[1]
            corner(k) == call.result[k]
        IN  /\ Len(call.result) = 4
            /\ \A k \in 1..4 : corner(k) \in points
            /\ \A p \in points : sum(corner(1)) <= sum(p)
            /\ \A p \in points : diff(corner(2)) <= diff(p)
            /\ \A p \in points : diff(corner(3)) >= diff(p)
            /\ \A p \in points : sum(corner(4)) >= sum(p)

\* C14: the corners of a square given as bottom-right, top-left, top-right,
\* bottom-left came back as top-left, top-right, bottom-left, bottom-right.
C14_SquareReordered ==
    /\ call.fn = "reorder"
    /\ call.args = <<<<2, 2>>, <<0, 0>>, <<2, 0>>, <<0, 2>>>>
    /\ call.result = <<<<0, 0>>, <<2, 0>>, <<0, 2>>, <<2, 2>>>>

\* C15: every value that isBubbleFilled returns lies in [0, 1], for every
\* mean intensity 0..255, every variance, and on the error path.
C15_ConfidenceInUnitInterval ==
    call.fn = "isBubbleFilled" =>
        /\ 0 <= call.result
        /\ call.result <= ConfScale

\* C15: a bright region (mean 240) of deviation 51 was measured at the floor
\* 0.3 of the high-variance branch, after a region whose extraction failed
\* was measured at 0.0.
C15_FloorAndErrorPath ==
    /\ call.fn = "isBubbleFilled"
    /\ call.args.mean100 = 24000
    /\ call.args.stdDev = 51
    /\ call.result = 7650
    /\ call.earlier # Null
    /\ call.earlier.args.throws
    /\ call.earlier.result = 0

\* Two regions of the same variance were measured one after the other and
\* neither measurement failed.
MeasuredPair ==
    /\ call.fn = "isBubbleFilled"
    /\ call.earlier # Null
    /\ ~call.args.throws
    /\ ~call.earlier.args.throws
    /\ call.args.stdDev = call.earlier.args.stdDev

\* C16: at a fixed variance, a region of strictly lower mean intensity gets
\* a strictly higher confidence, for every pair of means.
C16_StrictlyDecreasing ==
    MeasuredPair =>
        /\ call.args.mean100 < call.earlier.args.mean100
              => call.result > call.earlier.result
        /\ call.args.mean100 > call.earlier.args.mean100
              => call.result < call.earlier.result

\* C16: two regions of deviation 51, of mean 180 and of mean 200, were both
\* measured at 0.3.
C16_FlatAtFloor ==
    /\ MeasuredPair
    /\ call.earlier.args.mean100 = 18000
    /\ call.args.mean100 = 20000
    /\ call.args.stdDev = 51
    /\ call.earlier.result = 7650
    /\ call.result = 7650

\* C18: the padded rectangle that isBubbleFilled extracts lies entirely
\* inside the image: its origin is at least (0,0), x + width is at most the
\* image width and y + height at most the image height.
C18_RectInsideImage ==
    call.fn = "paddedRect" =>
        /\ call.result.x >= 0
        /\ call.result.y >= 0
        /\ call.result.x + call.result.width <= call.args.imageWidth
        /\ call.result.y + call.result.height <= call.args.imageHeight

\* C18: on an image 400 pixels wide the rectangle of option D of a question
\* of the last Section-1 column starts at x = 400 and is 16 wide.
C18_RectPastRightEdge ==
    /\ call.fn = "paddedRect"
    /\ call.args.imageWidth = 400
    /\ call.args.bubble.x = 402
    /\ call.result.x = 400
    /\ call.result.width = 16

\* The file names of a sequence of results and of a sequence of images.
FileNames(results) == [k \in 1..Len(results) |-> results[k].fileName]

ImageNames(images) == [k \in 1..Len(images) |-> images[k].name]

\* The step that ends a batch: the continuation of processImages leaves its
\* loop.
BatchFinishes == batch # Null /\ batch' = Null

\* C19: when a batch run of processImages ends, processedResults holds
\* exactly one entry for each selected image, in the order of
\* selectedImages, whatever the order of image loads, renders of UploadPage
\* and runs of the ImageProcessor effect.
C19_OneEntryPerImageInOrder ==
    [][BatchFinishes =>
          FileNames(processedResults) = ImageNames(batch.selectedImages)]_vars

\* C19: the promise of the last image of a batch of two is resolved and
\* processedResults holds three entries, two of them for the first image.
C19_ImageProcessedTwice ==
    /\ Resuming
    /\ batch.i + 1 = Len(batch.selectedImages)
    /\ Len(batch.selectedImages) = 2
    /\ Len(processedResults) = 3
    /\ processedResults[1].fileName = batch.selectedImages[1].name
    /\ processedResults[2].fileName = batch.selectedImages[1].name

\* C20: when a batch finishes, the localStorage entry 'studentResults' is
\* the results stored before the batch followed by exactly the results
\* produced in this batch, one per processed image.
C20_BatchResultsStored ==
    [][BatchFinishes =>
          /\ Len(processedResults) = Len(batch.selectedImages)
          /\ getItem(localStorage', "studentResults", <<>>) =
                 getItem(localStorage, "studentResults", <<>>)
                 \o processedResults]_vars

\* C20: the first batch has finished with one result on the page and
\* 'studentResults' holds an empty list.
C20_FirstBatchNotStored ==
    /\ batch = Null
    /\ batches = 1
    /\ lastAlert = "processing done"
    /\ Len(processedResults) = 1
    /\ Has(localStorage, "studentResults")
    /\ localStorage.studentResults = <<>>

\* The sheet of the batch that has the file name of a result.
SheetNamed(fileName) == CHOOSE sheet \in BatchSheets : sheet.name = fileName

\* The result that UploadPage holds for a sheet processed alone, as the
\* only image of the first batch.
AloneResult(sheet) ==
    LET result == processWithOpenCV(build, nodeEnv, sheet, 0)
    IN  [id |-> "student_1",
         fileName |-> sheet.name,
         studentId |-> result.studentId,
         phanI |-> result.phanI,
         phanII |-> result.phanII,
         phanIII |-> result.phanIII,
         processed |-> TRUE]

\* C17: the processing of one sheet shares no state with the processing of
\* another: however the processing of two sheets interleaves, the result of
\* each sheet is the result of processing that sheet alone.
C17_ResultAsProcessedAlone ==
    \A k \in 1..Len(processedResults) :
        processedResults[k] = AloneResult(SheetNamed(processedResults[k].fileName))

\* C17: the result of a sheet has the answers of the sheet processed alone
\* and the id student_3, counted from the results that two loads of the
\* other sheet left in processedResults.
C17_IdCountsOtherSheet ==
    \E k \in 1..Len(processedResults) :
        LET entry == processedResults[k]
        IN  /\ entry.id = "student_3"
            /\ [entry EXCEPT !.id = "student_1"] = AloneResult(SheetNamed(entry.fileName))
            /\ \A j \in 1..(k - 1) : processedResults[j].fileName # entry.fileName

\* C26: for four distinct points, the output of reorder is a permutation of
\* its input: no corner is dropped and none is duplicated, also when two
\* corners tie on x+y or on y-x.
C26_ReorderIsPermutation ==
    (call.fn = "reorder" /\ Cardinality(Range(call.args)) = 4) =>
        /\ Range(call.result) = Range(call.args)
        /\ Cardinality(Range(call.result)) = 4

\* C26: the corners of a square standing on a corner, (1,0), (2,1), (1,2),
\* (0,1), came back with (1,0) in two slots and without (0,1).
C26_DiamondCornerDropped ==
    /\ call.fn = "reorder"
    /\ call.args = <<<<1, 0>>, <<2, 1>>, <<1, 2>>, <<0, 1>>>>
    /\ call.result = <<<<1, 0>>, <<1, 0>>, <<1, 2>>, <<2, 1>>>>

\* The raw confidence 1 - m/255 of the region that the last call measured.
RawConfidence == ConfScale - call.args.mean100

\* C29: the high-variance adjustment of isBubbleFilled never lifts a region
\* over the decision threshold: a region whose raw confidence 1 - m/255 is
\* at most T is never reported with a confidence above T.
C29_NeverLiftedOverThreshold ==
    (call.fn = "isBubbleFilled" /\ ~call.args.throws /\ RawConfidence <= T) =>
        call.result <= T

\* C29: a region of mean 230 and deviation 51, raw confidence 0.098, was
\* reported at 0.3: above its raw confidence and below T.
C29_LiftedToFloor ==
    /\ call.fn = "isBubbleFilled"
    /\ call.earlier = Null
    /\ call.args.mean100 = 23000
    /\ call.args.stdDev = 51
    /\ call.result = 7650
    /\ call.result > RawConfidence
    /\ call.result < T

\* The scanned columns 0..8 that hold one of the filled ID bubbles.
ResolvedColumns(filled) == {b.column : b \in filled} \cap (0..8)

\* The ID strings that hold, in increasing column order, one digit of a
\* filled bubble for every resolved column and nothing for the other columns.
ResolvedIds(filled) ==
    LET resolved == ResolvedColumns(filled)
        digitsOf(col) ==
            IF col \in resolved
            THEN {toString(b.row) : b \in {f \in filled : f.column = col}}
            ELSE {""}
        ids[col \in 0..9] ==
            IF col = 9 THEN {""}
            ELSE {d \o rest : d \in digitsOf(col), rest \in ids[col + 1]}
    IN  ids[0]

\* C30: in the main revision, when at least one scanned column is resolved,
\* the student ID has exactly one digit for each column 0..8 that has a row
\* above T, in increasing column order, and at most 9 characters; a column
\* with no row above T contributes no character.
C30_OneDigitPerResolvedColumn ==
    build = "main" =>
        \A c \in Completed :
            LET filled == FilledIdBubbles(c)
            IN  ResolvedColumns(filled) # {} =>
                    /\ c.result.studentId \in ResolvedIds(filled)
                    /\ Len(c.result.studentId) = Cardinality(ResolvedColumns(filled))
                    /\ Len(c.result.studentId) <= 9

\* C30: only row 7 of column 8 is marked; the student ID is "7", the digit
\* of the ninth column in the first position.
C30_LateColumnMovesLeft ==
    /\ build = "main"
    /\ \E c \in Completed :
           /\ DOMAIN c.imageFile.marks = {IdBubble(8, 7)}
           /\ ResolvedColumns(FilledIdBubbles(c)) = {8}
           /\ c.result.studentId = "7"

\* The question indices below the questionCount at which the two string
\* arrays are equal under ===.
EqualIndices(questionCount, studentAnswers, answers) ==
    {i \in 0..(questionCount - 1) :
        StringAt(studentAnswers, i) = StringAt(answers, i)}

\* The question indices below the questionCount at which both Phan II
\* entries exist and agree in a, b, c and d.
EqualPhanIIIndices(questionCount, studentAnswers, answers) ==
    {i \in 0..(questionCount - 1) :
        /\ Truthy(ObjectAt(studentAnswers, i))
        /\ Truthy(ObjectAt(answers, i))
        /\ \A sub \in {"a", "b", "c", "d"} :
               ObjectAt(studentAnswers, i)[sub] = ObjectAt(answers, i)[sub]}

AnsweredCorrectly(questionCount, studentAnswers, answers) ==
    {i \in 0..(questionCount - 1) :
        /\ i < Len(studentAnswers)
        /\ i < Len(answers)
        /\ answers[i + 1] # JsNull
        /\ studentAnswers[i + 1] = answers[i + 1]}

\* C27: calculateScore never counts a question as correct when no key
\* answer is configured for it or when the student's result has no entry
\* for it: the Phan I and Phan III scores count only questions that have
\* both, and the Phan II score only questions whose two entries exist.
C27_MissingNeverCorrect ==
    call.fn = "calculateScore" =>
        LET student == call.args.studentResult
            key == call.args.config
            score == call.result
        IN  /\ score.phanI = Cardinality(AnsweredCorrectly(key.phanI.questionCount,
                                 student.phanI, key.phanI.answers))
            /\ score.phanII = Cardinality(EqualPhanIIIndices(key.phanII.questionCount,
                                  student.phanII, key.phanII.answers))
            /\ score.phanIII = Cardinality(AnsweredCorrectly(key.phanIII.questionCount,
                                   student.phanIII, key.phanIII.answers))

\* C27: with 3 Phan I questions, the key A, B and the answers A and blank,
\* the third question, which has neither a key nor an answer, was counted
\* with the first: the Phan I score is 2.
C27_UnansweredCounted ==
    /\ call.fn = "calculateScore"
    /\ call.args.config.phanI = [questionCount |-> 3, answers |-> <<"A", "B">>]
    /\ call.args.studentResult.phanI = <<"A", "">>
    /\ call.result.phanI = 2

\* A click on the process button that returns at one of the two checks.
EarlyReturn ==
    /\ processImages
    /\ Len(selectedImages) = 0 \/ ~Has(localStorage, "testConfig")

\* C24: processImages changes nothing when no image is selected or no
\* testConfig is saved: processing stays false, the results shown are not
\* cleared, currentProcessingImage stays null and nothing is written to
\* localStorage.
C24_EarlyReturnChangesNothing ==
    [][EarlyReturn =>
          /\ ~processing'
          /\ processedResults' = processedResults
          /\ currentProcessingImage' = Null
          /\ localStorage' = localStorage]_vars

\* C24: after a batch its image was removed and the button was clicked with
\* an empty selection: the alert asks for an image, the result of the batch
\* is still shown and nothing is being processed.
C24_ResultsKeptAfterEarlyReturn ==
    /\ lastAlert = "select an image"
    /\ Len(selectedImages) = 0
    /\ Len(processedResults) = 1
    /\ ~processing
    /\ currentProcessingImage = Null
    /\ batch = Null

\* The data URLs of the saves whose write succeeded, in save order.
SavedUrls ==
    LET written == SelectSeq(SaveLog, LAMBDA save : ~save.writeFails)
    IN  [k \in 1..Len(written) |-> written[k].dataUrl]

StoredUrls ==
    LET stored == getStoredImages(localStorage)
    IN  [k \in 1..Len(stored) |-> stored[k].dataUrl]

\* C23: after any sequence of saveToStorage calls the stored list holds at
\* most 10 images, the most recently saved ones in save order; a save whose
\* write fails returns '' and leaves the stored list as it was, so the list
\* is always made of the last saves that were written.
C23_LatestTenStored ==
    call.fn = "saveToStorage" =>
        /\ Len(StoredUrls) <= 10
        /\ StoredUrls = LastOf(SavedUrls, 10)
        /\ \A k \in 1..Len(SaveLog) :
               SaveLog[k].writeFails => SaveLog[k].result = ""

\* C23: twelve images were saved, the write of the eleventh failed, and the
\* list holds images 2 to 10 and 12.
C23_OldestDroppedFailedSkipped ==
    /\ call.fn = "saveToStorage"
    /\ Len(SaveLog) = 12
    /\ \A k \in 1..12 : SaveLog[k].writeFails <=> (k = 11)
    /\ SaveLog[11].result = ""
    /\ Len(StoredUrls) = 10
    /\ StoredUrls[1] = "data:image/png;2"
    /\ StoredUrls[9] = "data:image/png;10"
    /\ StoredUrls[10] = "data:image/png;12"

\* C21: image processing starts only after the OpenCV runtime has finished
\* initializing: cvLoaded is never true, and no image is being loaded for
\* processWithOpenCV, while the runtime is uninitialized, in any order of
\* script load, runtime callback and component mount.
C21_ProcessingAfterRuntimeReady ==
    /\ cvLoaded => windowCv = "ready"
    /\ pendingLoads # {} => windowCv = "ready"

\* C21: the script has loaded and the runtime has not called back; an
\* ImageProcessor mounted in between has cvLoaded set and has started the
\* load of the image that processWithOpenCV will hand to window.cv.
C21_MountedBetweenLoadAndRuntime ==
    /\ windowCv = "loaded"
    /\ cvLoaded
    /\ currentProcessingImage # Null
    /\ \E load \in pendingLoads :
           ~load.unmounted /\ load.imageFile = currentProcessingImage

\* The list under 'studentResults', as ResultsPage reads it.
StoredResults == getItem(localStorage, "studentResults", <<>>)

\* C28: every result in the stored 'studentResults' list has an id different
\* from every other stored result, within a batch and across batches.
C28_StoredIdsDistinct ==
    \A i \in 1..Len(StoredResults) : \A j \in 1..Len(StoredResults) :
        i # j => StoredResults[i].id # StoredResults[j].id

\* C28: three batches of one image have finished; the stored list holds
\* the result of the first batch and the result of the second, and both
\* have the id student_1.
C28_StudentOneOfTwoBatches ==
    /\ batch = Null
    /\ batches = 3
    /\ Len(completions) = 3
    /\ Len(StoredResults) = 2
    /\ StoredResults[1].id = "student_1"
    /\ StoredResults[2].id = "student_1"

\* C25: a batch started by processImages on a non-empty selection with a
\* saved configuration eventually finishes, processing back to false and
\* currentProcessingImage to null, for every image load outcome.
C25_BatchEventuallyFinishes ==
    processing ~> (~processing /\ currentProcessingImage = Null)

\* C25: the load of the image of the running batch has ended with the error
\* event; the batch waits for its promise, no load and no effect is
\* pending, and the page still shows that it is processing.
C25_WaitingAfterFailedLoad ==
    /\ processing
    /\ batch # Null
    /\ ~batch.resolved
    /\ currentProcessingImage # Null
    /\ windowCv = "ready"
    /\ cvLoaded
    /\ ipProcessing
    /\ ~effectPending
    /\ pendingLoads = {}
    /\ completions = <<>>

====
